---- MODULE Spec2Model ----
(***************************************************************************)
(* Model of webcam.py: the StyleWindow control surface and the frame loop  *)
(* of main().  Sizes are pixels, scale/alpha/interp_weight are kept in     *)
(* hundredths (the trackbar value v stands for the float v / 100).         *)
(***************************************************************************)
EXTENDS Integers, Sequences, FiniteSets, TLC

(* ------------------------------ bounds --------------------------------- *)
\* largest catalog get_files() returns
MaxStyles == 2
\* frames the camera delivers before the stream ends
MaxFrames == 2
\* trackbar events cv2 delivers during one session of main()
MaxCallbacks == 1
\* step of the trackbar positions tried between 0 and the trackbar maximum
SizeStep == 300

(* -------------------------- program constants -------------------------- *)
CropInit == 256
SizeTrackMax == 2048
ScaleTrackMax == 200
PctMax == 100
DefaultStyleSize == 512

\* "no value": Python's None for an index argument / a missing attribute
None == -1

\* trackbar positions tried for 'size' and 'crop size' (range 0..2048)
SizeVals == {0, SizeTrackMax} \cup {k * SizeStep : k \in 1..2}
\* --style-size values tried (below, at and above the 256 crop box)
StyleSizes == {CropInit \div 2, CropInit, DefaultStyleSize}
\* trackbar positions tried for 'scale' (range 0..200)
ScaleVals == {0, PctMax \div 2, ScaleTrackMax}
\* trackbar positions tried for 'alpha' and 'interpolation' (range 0..100)
PctVals == {0, PctMax}
\* --random values tried (0 disables the periodic reload)
RandomVals == {0, 2}
\* camera frame sizes <<width, height>>
FrameSizes == {<<640, 480>>, <<800, 600>>}
\* pixel contents a camera frame can have
CamPixels == {"cam1", "cam2"}
\* camera frames <<width, height, pixels>>: two sizes, and two frames of one
\* size that differ in their pixels only
CamFrames == {<<d[1], d[2], p>> : d \in FrameSizes, p \in CamPixels}
                \ {<<800, 600, "cam2">>}
\* outcomes of np.random.randint(0, 256, shape) for one shape
NoiseDraws == {"rnd1", "rnd2"}
\* the names of the catalog files, in get_files() order
AllFiles == [i \in 1..(MaxStyles + 1) |-> i]

(* ------------------------ external collaborators ----------------------- *)
VARIABLE
    unreadable     \* the catalog files that cannot be read as an image

\* utils.get_files: the ordered catalog of n style files
get_files(n) == SubSeq(AllFiles, 1, n)

\* utils.get_img_crop: the buffer is determined by file, resize and crop
get_img_crop(style_file, resize, crop) ==
    [file |-> style_file, resize |-> resize, crop |-> crop]

\* utils.get_img_crop raises on a file it cannot read
load_raises(style_file) == style_file \in unreadable

\* style_rgbs entry that is still Python None
NoImg == [file |-> 0, resize |-> 0, crop |-> 0]

\* faulty variant: the upper bound taken as inclusive
randint_Inclusive(n) == 0..n
\* np.random.randint(n): an integer of 0..n-1
randint(n) == 0..(n - 1)

\* cvRound(a / b) for a >= 0, b > 0: round half to even
cvRound(a, b) ==
    LET q == a \div b
        r == a % b
    IN  IF 2 * r < b THEN q
        ELSE IF 2 * r > b THEN q + 1
        ELSE IF q % 2 = 0 THEN q ELSE q + 1

\* cv2.resize(frame, None, fx=s, fy=s) on a <<w, h>> frame, s = pct / 100
resize_by(dims, pct) == <<cvRound(dims[1] * pct, 100), cvRound(dims[2] * pct, 100)>>

\* the image cv2.resize(frame, None, fx=s, fy=s) returns: the camera's pixels
\* at the new size, in OpenCV's channel order
resize_frame(camframe, pct) ==
    [dims |-> resize_by(camframe, pct), src |-> "camera", pix |-> camframe[3],
     order |-> "BGR"]

\* lines 150-151: gaussian_filter(np.random.randint(0, 256, shape, np.uint8)),
\* determined by the shape and the draw
noise_image(shape, draw) ==
    [dims |-> shape, src |-> "noise", pix |-> draw, order |-> "BGR"]

\* cv2.cvtColor(img, COLOR_BGR2RGB) and COLOR_RGB2BGR: the channels swapped
cvtColor(img) == [img EXCEPT !.order = IF @ = "BGR" THEN "RGB" ELSE "BGR"]

\* cv2.resize raises on an absent source and on an empty destination size
resize_raises(dims, pct) ==
    \/ dims = <<>>
    \/ pct <= 0
    \/ resize_by(dims, pct)[1] = 0
    \/ resize_by(dims, pct)[2] = 0

(* ------------------------------ StyleWindow ---------------------------- *)
\* A call on the window yields the updated object and the exception it raised.
Ok(self) == [self |-> self, raised |-> "none"]
Raise(self, e) == [self |-> self, raised |-> e]

\* faulty variant: the idx argument taken as an offset from the current index
set_style_Relative(self, idxArg, rnd, style_idx) ==
    LET n  == Len(self.style_imgs)
        i1 == IF idxArg # None THEN (self.idx + idxArg + 1) % n ELSE self.idx
        i2 == IF rnd # None THEN rnd ELSE i1
        s1 == [self EXCEPT !.idx = i2]
    IN  Ok([s1 EXCEPT !.style_rgbs[style_idx] =
               get_img_crop(s1.style_imgs[i2 + 1], s1.img_size, s1.crop_size)])
\* set_style(idx, random, style_idx); rnd is the randint draw, None if random=False
set_style(self, idxArg, rnd, style_idx) ==
    LET i1 == IF idxArg # None THEN idxArg ELSE self.idx
        i2 == IF rnd # None THEN rnd ELSE i1
        s1 == [self EXCEPT !.idx = i2]
    IN  IF i2 \notin 0..(Len(self.style_imgs) - 1)
        THEN Raise(s1, "IndexError")
        ELSE IF load_raises(s1.style_imgs[i2 + 1])
        THEN Raise(s1, "ImageLoadError")
        ELSE Ok([s1 EXCEPT !.style_rgbs[style_idx] =
                    get_img_crop(s1.style_imgs[i2 + 1], s1.img_size, s1.crop_size)])

set_idx(self, i) == set_style(self, i, None, 0)

set_size(self, size) ==
    LET m == IF size >= self.crop_size THEN size ELSE self.crop_size
    IN  set_style([self EXCEPT !.img_size = m], None, None, 0)

set_crop_size(self, crop) ==
    LET m == IF crop <= self.img_size THEN crop ELSE self.img_size
    IN  set_style([self EXCEPT !.crop_size = m], None, None, 0)

\* faulty variant: the scale setter reloads the style as the size setters do
set_scale_Reload(self, v) == set_style([self EXCEPT !.scale = v], None, None, 0)
\* set_scale: v / 100 under true division, kept in hundredths
set_scale(self, v) == Ok([self EXCEPT !.scale = v])

set_alpha(self, v) == Ok([self EXCEPT !.alpha = v])

set_interp(self, v) == Ok([self EXCEPT !.interp_weight = v])

\* the trackbars __init__ creates
init_trackbars(n, interpolate) ==
    {"alpha", "size", "crop size", "scale"}
        \cup (IF n > 1 THEN {"index"} ELSE {})
        \cup (IF interpolate THEN {"interpolation"} ELSE {})

\* StyleWindow.__init__ up to the first set_style
init_fields(n, img_size, scale, alpha, interpolate) ==
    [style_imgs    |-> get_files(n),
     style_rgbs    |-> [s \in 0..1 |-> NoImg],
     img_size      |-> img_size,
     crop_size     |-> CropInit,
     scale         |-> scale,
     alpha         |-> alpha,
     idx           |-> None,
     interp_weight |-> None,
     trackbars     |-> init_trackbars(n, interpolate)]

\* faulty variant: the second load of __init__ goes to slot 0 again
StyleWindow_OneSlot(n, img_size, scale, alpha, interpolate, r0, r1) ==
    LET s0 == set_style(init_fields(n, img_size, scale, alpha, interpolate), None, r0, 0).self
    IN  IF interpolate
        THEN set_style([s0 EXCEPT !.interp_weight = PctMax], None, r1, 0).self
        ELSE s0
\* StyleWindow.__init__ with the two randint draws r0 and r1
StyleWindow(n, img_size, scale, alpha, interpolate, r0, r1) ==
    LET s0 == set_style(init_fields(n, img_size, scale, alpha, interpolate), None, r0, 0).self
    IN  IF interpolate
        THEN set_style([s0 EXCEPT !.interp_weight = PctMax], None, r1, 1).self
        ELSE s0

(* ------------------------------- state --------------------------------- *)
VARIABLES
    args,          \* the parsed command line (immutable)
    style_window,  \* the StyleWindow object
    pc,            \* position of main()
    cap,           \* the WebcamVideoStream: "unstarted", "running", "stopped"
    frame,         \* <<width, height, pixels>> of the frame last read, <<>> if none
    out_shape,     \* <<width, height>> given to cv2.VideoWriter, <<>> if unset
    video_writer,  \* "none", "open", "released"
    windows,       \* the cv2 windows that exist
    keep_colors,   \* main()'s local flag
    count,         \* main()'s frame counter
    stylized,      \* <<width, height>> of stylized_bgr in this tick
    shown,         \* frames handed to cv2.imshow('AdaIN Style', ...)
    written,       \* sizes of the frames given to video_writer.write, in order
    exc,           \* the exception that left main(), "none" if none
    stop_cause,    \* why the loop was left: "none", "quit", "eos"
    released,      \* the shutdown calls made so far, in order
    ncb,           \* trackbar events delivered so far
    cb_raised,     \* a trackbar callback raised (cv2 prints it and goes on)
    infer_failed,  \* engine calls that raised
    call,          \* history: the engine call whose result awaits output
    ncalls,        \* history: engine calls made so far
    auto_reloads,  \* history: periodic reloads made so far
    last,          \* history: the set_idx / set_scale / set_alpha / set_interp
                   \* call just made, if any, and for set_idx whether the
                   \* call before it was the same one
    source_index   \* history: per slot, the index it was last selected with

wvars == <<style_window, last, source_index, cb_raised>>
mvars == <<pc, cap, frame, out_shape, video_writer, windows, keep_colors, count,
           stylized, shown, written, exc, stop_cause, released, infer_failed,
           call, ncalls, auto_reloads>>
vars == <<args, unreadable, style_window, pc, cap, frame, out_shape, video_writer, windows,
          keep_colors, count, stylized, shown, written, exc, stop_cause, released,
          ncb, cb_raised, infer_failed, call, ncalls, auto_reloads, last,
          source_index>>

\* no engine result awaits output
NoEngineCall == [op |-> "none", content |-> <<>>, styles |-> <<>>, weights |-> <<>>,
                 alpha |-> None]

NoCall == [op |-> "none", arg |-> None, twice |-> FALSE]
\* a call of one of the three plain setters
Stored(op, arg) == [op |-> op, arg |-> arg, twice |-> FALSE]
Called(op, arg) == [op |-> op, arg |-> arg, twice |-> last.op = op /\ last.arg = arg]

\* a command line: the flags main() and StyleWindow read
ArgsOf(interpolate, concat, video_out, noise, keep, random, scale, style_size) ==
    [interpolate |-> interpolate, concat |-> concat, video_out |-> video_out,
     noise |-> noise, keep_colors |-> keep, random |-> random, scale |-> scale,
     style_size |-> style_size, alpha |-> PctMax]

\* the state when StyleWindow(...) has returned at line 116, the files of
\* bad being unreadable
ConstructedWith(a, n, r0, r1, bad) ==
    /\ args = a
    /\ unreadable = bad
    /\ style_window = StyleWindow(n, a.style_size, a.scale, a.alpha, a.interpolate, r0, r1)
    /\ source_index = [s \in 0..1 |-> IF s = 0 THEN r0 ELSE IF a.interpolate THEN r1 ELSE None]
    /\ pc = "start"
    /\ cap = "unstarted"
    /\ frame = <<>>
    /\ out_shape = <<>>
    /\ video_writer = "none"
    /\ windows = {"Style Controls"} \cup (IF a.interpolate THEN {"style2"} ELSE {})
    /\ keep_colors = FALSE
    /\ count = 0
    /\ stylized = <<>>
    /\ shown = 0
    /\ written = <<>>
    /\ exc = "none"
    /\ stop_cause = "none"
    /\ released = <<>>
    /\ ncb = 0
    /\ cb_raised = FALSE
    /\ infer_failed = 0
    /\ call = NoEngineCall
    /\ ncalls = 0
    /\ auto_reloads = 0
    /\ last = NoCall

Constructed(a, n, r0, r1) == ConstructedWith(a, n, r0, r1, {})

\* sessions of main() on camera content: every combination of the other
\* flags, default style size
Init ==
    \E interpolate \in BOOLEAN, concat \in BOOLEAN, video_out \in BOOLEAN,
       keep \in BOOLEAN, random \in RandomVals,
       scale \in {PctMax \div 2, PctMax}, n \in 1..MaxStyles :
        \E r0 \in randint(n), r1 \in randint(n) :
            /\ (~interpolate => r1 = 0)
            /\ Constructed(ArgsOf(interpolate, concat, video_out, FALSE, keep, random,
                                  scale, DefaultStyleSize), n, r0, r1)

\* the control surface alone: every style size and catalog, the loop flags off
InitWindow ==
    \E interpolate \in BOOLEAN, style_size \in StyleSizes, n \in 1..MaxStyles :
        \E r0 \in randint(n), r1 \in randint(n) :
            /\ (~interpolate => r1 = 0)
            /\ Constructed(ArgsOf(interpolate, FALSE, FALSE, FALSE, FALSE, 0,
                                  PctMax, style_size), n, r0, r1)

\* sessions with unreadable files in the catalog; __init__ returned, so the
\* files it drew were readable
InitLoad ==
    \E interpolate \in BOOLEAN, random \in RandomVals, n \in 2..MaxStyles :
        \E r0 \in randint(n), r1 \in randint(n), bad \in SUBSET (1..n) :
            /\ (~interpolate => r1 = 0)
            /\ bad # {}
            /\ (r0 + 1) \notin bad
            /\ interpolate => (r1 + 1) \notin bad
            /\ ConstructedWith(ArgsOf(interpolate, FALSE, FALSE, FALSE, FALSE, random,
                                      PctMax, DefaultStyleSize), n, r0, r1, bad)

\* sessions with and without --noise, the other loop flags off
InitNoise ==
    \E noise \in BOOLEAN, interpolate \in BOOLEAN, random \in RandomVals,
       n \in 1..MaxStyles :
        \E r0 \in randint(n), r1 \in randint(n) :
            /\ (~interpolate => r1 = 0)
            /\ Constructed(ArgsOf(interpolate, FALSE, FALSE, noise, FALSE, random,
                                  PctMax, DefaultStyleSize), n, r0, r1)

(* ------------------------------- main() -------------------------------- *)
\* cap.read(): a frame of some size, or a failed read (ret False, frame None)
cap_read == {[ret |-> TRUE, frame |-> d] : d \in CamFrames}
                \cup {[ret |-> FALSE, frame |-> <<>>]}

\* an uncaught exception leaves main(): nothing after the raising line runs
Crash(e) ==
    /\ pc' = "crashed"
    /\ exc' = e

\* lines 127-135: the size the video writer is opened with
OutShape(img, concat) ==
    IF concat THEN <<img[1] + img[2], img[2]>> ELSE <<img[1], img[2]>>

\* lines 119-141: start the capture, read the sample frame, open the writer
Setup ==
    /\ pc = "start"
    /\ cap' = "running"
    /\ \E rd \in cap_read :
        /\ frame' = rd.frame
        /\ IF resize_raises(rd.frame, args.scale)
           THEN /\ Crash("cv2.error")
                /\ UNCHANGED <<out_shape, video_writer, keep_colors>>
           ELSE /\ pc' = "read"
                /\ exc' = exc
                /\ out_shape' = IF args.video_out
                                THEN OutShape(resize_by(rd.frame, args.scale), args.concat)
                                ELSE <<>>
                /\ video_writer' = IF args.video_out THEN "open" ELSE "none"
                /\ keep_colors' = args.keep_colors
    /\ last' = NoCall
    /\ UNCHANGED <<args, unreadable, style_window, windows, count, stylized, shown,
                   written, stop_cause, released, ncb, cb_raised, infer_failed,
                   call, ncalls, auto_reloads, source_index>>

\* faulty variant: continue where the code has break
AfterBreak_Continue == "read"
\* where main() goes when the loop is left by break
AfterBreak == "stopping"

\* lines 144-146, 200-201: read a frame; a failed read leaves the loop
ReadFrame ==
    /\ pc = "read"
    /\ \E rd \in cap_read :
        /\ rd.ret => count < MaxFrames
        /\ frame' = rd.frame
        /\ IF rd.ret
           THEN pc' = "dispatch" /\ stop_cause' = stop_cause
           ELSE pc' = AfterBreak /\ stop_cause' = "eos"
    /\ last' = NoCall
    /\ UNCHANGED <<args, unreadable, style_window, cap, out_shape, video_writer, windows,
                   keep_colors, count, stylized, shown, written, exc, released, ncb,
                   cb_raised, infer_failed, call, ncalls, auto_reloads,
                   source_index>>

\* lines 174-178: the size of the frame composed from the engine's output
Composed(content, concat, interpolate) ==
    IF concat /\ ~interpolate
    THEN <<content[2] + content[1], content[2]>>
    ELSE content

\* faulty variant: the noise branch skipped, the camera frame kept
content_image_KeepFrame(camframe, pct, noise, draw) ==
    cvtColor(resize_frame(camframe, pct))

\* lines 147-156: the content image: the resized frame, or noise of its shape
\* when --noise is given, in the engine's channel order
content_image(camframe, pct, noise, draw) ==
    cvtColor(IF noise THEN noise_image(resize_by(camframe, pct), draw)
                      ELSE resize_frame(camframe, pct))

\* faulty variant: the counter tested before it is incremented
AutoReloadDue_Before(random, cnt) == random > 0 /\ (cnt - 1) % random = 0
\* line 158: the periodic reload is due in the frame with counter cnt
AutoReloadDue(random, cnt) == random > 0 /\ cnt % random = 0

\* faulty variant: the two weights in the opposite order
interp_weights_Swapped(w) == <<PctMax - w, w>>
\* line 168: the weights of the two styles, in hundredths
interp_weights(w) == <<w, PctMax - w>>

\* lines 164-172: the engine call main() makes for a content image
engine_call(self, interpolate, content) ==
    IF ~interpolate
    THEN [op |-> "predict", content |-> content,
          styles |-> <<self.style_rgbs[0]>>, weights |-> <<>>, alpha |-> self.alpha]
    ELSE [op |-> "predict_interpolate", content |-> content,
          styles |-> <<self.style_rgbs[0], self.style_rgbs[1]>>,
          weights |-> interp_weights(self.interp_weight), alpha |-> self.alpha]

\* lines 147-180: resize, auto-reload, keep-colors, inference, concat.
\* r is the randint draw of the auto-reload, z the noise draw, ok the engine's
\* outcome.
Dispatch ==
    /\ pc = "dispatch"
    /\ last' = NoCall
    /\ UNCHANGED <<args, unreadable, cap, frame, out_shape, video_writer, windows,
                   keep_colors, shown, written, stop_cause, released, ncb, cb_raised>>
    /\ IF resize_raises(frame, style_window.scale)
       THEN /\ Crash("cv2.error")
            /\ UNCHANGED <<style_window, count, stylized, infer_failed, call, ncalls,
                           auto_reloads, source_index>>
       ELSE
        /\ count' = count + 1
        /\ \E r \in randint(Len(style_window.style_imgs)), z \in NoiseDraws,
              ok \in BOOLEAN :
            LET reload  == AutoReloadDue(args.random, count')
                res     == IF reload THEN set_style(style_window, None, r, 0)
                                     ELSE Ok(style_window)
                content == content_image(frame, style_window.scale, args.noise, z)
                noinfer == res.raised # "none" \/ keep_colors
            IN  /\ (~reload => r = 0)
                /\ (~args.noise \/ noinfer) => z = "rnd1"
                /\ noinfer => ok
                /\ style_window' = res.self
                /\ auto_reloads' = IF reload THEN auto_reloads + 1 ELSE auto_reloads
                /\ source_index' = IF reload /\ res.raised = "none"
                                   THEN [source_index EXCEPT ![0] = r]
                                   ELSE source_index
                /\ IF res.raised # "none"
                   THEN /\ Crash(res.raised)
                        /\ UNCHANGED <<stylized, infer_failed, call, ncalls>>
                   ELSE IF keep_colors
                   THEN \* line 162 reads style_window.style_rgb, which no
                        \* StyleWindow has
                        /\ Crash("AttributeError")
                        /\ UNCHANGED <<stylized, infer_failed, call, ncalls>>
                   ELSE
                        /\ call' = engine_call(res.self, args.interpolate, content)
                        /\ ncalls' = ncalls + 1
                        /\ IF ~ok
                           THEN /\ Crash("InferenceError")
                                /\ infer_failed' = infer_failed + 1
                                /\ UNCHANGED stylized
                           ELSE /\ pc' = "output"
                                /\ exc' = exc
                                /\ stylized' = Composed(content.dims, args.concat,
                                                        args.interpolate)
                                /\ UNCHANGED infer_failed

\* faulty variant: the frame written as composed
WriteDims_NoResize(dims, shape) == dims
\* line 183: the frame given to the writer is resized to out_shape
WriteDims(dims, shape) == shape

\* lines 182-188: write the frame, show it
Output ==
    /\ pc = "output"
    /\ written' = IF args.video_out
                  THEN Append(written, WriteDims(stylized, out_shape))
                  ELSE written
    /\ windows' = windows \cup {"AdaIN Style"}
    /\ shown' = shown + 1
    /\ pc' = "poll"
    /\ last' = NoCall
    /\ call' = NoEngineCall
    /\ UNCHANGED <<args, unreadable, style_window, cap, frame, out_shape, video_writer,
                   keep_colors, count, stylized, exc, stop_cause, released, ncb,
                   cb_raised, infer_failed, ncalls, auto_reloads, source_index>>

(* --------------------- calls on the StyleWindow ------------------------ *)
\* the window after a call: res is the call's result, si the slot indices
Apply(res, made, si) ==
    /\ style_window' = res.self
    /\ cb_raised' = (cb_raised \/ res.raised # "none")
    /\ last' = made
    /\ source_index' = si

\* the six trackbar callbacks, as operations on the current window
Do_set_idx(i) ==
    /\ "index" \in style_window.trackbars
    /\ Apply(set_idx(style_window, i), Called("set_idx", i), [source_index EXCEPT ![0] = i])
Do_set_size(v) ==
    /\ "size" \in style_window.trackbars
    /\ Apply(set_size(style_window, v), NoCall, source_index)
Do_set_crop_size(v) ==
    /\ "crop size" \in style_window.trackbars
    /\ Apply(set_crop_size(style_window, v), NoCall, source_index)
Do_set_scale(v) ==
    /\ "scale" \in style_window.trackbars
    /\ Apply(set_scale(style_window, v), Stored("set_scale", v), source_index)
Do_set_alpha(v) ==
    /\ "alpha" \in style_window.trackbars
    /\ Apply(set_alpha(style_window, v), Stored("set_alpha", v), source_index)
Do_set_interp(v) ==
    /\ "interpolation" \in style_window.trackbars
    /\ Apply(set_interp(style_window, v), Stored("set_interp", v), source_index)

\* faulty variant: 'r' reloads slot 1 whether interpolating or not
reload_styles_Both(self, interpolate, r0, r1) ==
    LET a == set_style(self, None, r0, 0)
    IN  IF a.raised # "none" THEN a
        ELSE set_style(a.self, None, r1, 1)
\* lines 192-194: 'r' reloads slot 0 and, when interpolating, slot 1
reload_styles(self, interpolate, r0, r1) ==
    LET a == set_style(self, None, r0, 0)
    IN  IF a.raised # "none" \/ ~interpolate THEN a
        ELSE set_style(a.self, None, r1, 1)

\* the trackbar positions cv2 can deliver for the 'index' trackbar
IndexVals == 0..(Len(style_window.style_imgs) - 1)

\* cv2.waitKey(10) dispatches the pending trackbar events on the loop thread
InWaitKey ==
    /\ pc = "poll"
    /\ ncb < MaxCallbacks
    /\ ncb' = ncb + 1
    /\ UNCHANGED <<args, unreadable, pc, cap, frame, out_shape, video_writer, windows,
                   keep_colors, count, stylized, shown, written, exc, stop_cause,
                   released, infer_failed, call, ncalls, auto_reloads>>

On_set_idx == \E i \in IndexVals : InWaitKey /\ Do_set_idx(i)
On_set_size == \E v \in SizeVals : InWaitKey /\ Do_set_size(v)
On_set_crop_size == \E v \in SizeVals : InWaitKey /\ Do_set_crop_size(v)
On_set_scale == \E v \in ScaleVals : InWaitKey /\ Do_set_scale(v)
On_set_alpha == \E v \in PctVals : InWaitKey /\ Do_set_alpha(v)
On_set_interp == \E v \in PctVals : InWaitKey /\ Do_set_interp(v)

\* lines 190-199: what main() does with the key waitKey returned
KeyFrame == <<args, unreadable, cap, frame, out_shape, video_writer, windows, count,
              stylized, shown, written, released, ncb, cb_raised, infer_failed,
              call, ncalls, auto_reloads>>

\* 'r': load new random style(s)
KeyR ==
    /\ pc = "poll"
    /\ \E r0 \in randint(Len(style_window.style_imgs)),
          r1 \in randint(Len(style_window.style_imgs)) :
        LET res == reload_styles(style_window, args.interpolate, r0, r1)
        IN  /\ (~args.interpolate => r1 = 0)
            /\ style_window' = res.self
            /\ source_index' = [s \in 0..1 |->
                                  IF s = 0 THEN r0
                                  ELSE IF args.interpolate THEN r1 ELSE source_index[s]]
            /\ IF res.raised # "none"
               THEN Crash(res.raised)
               ELSE pc' = "read" /\ exc' = exc
    /\ last' = NoCall
    /\ UNCHANGED <<keep_colors, stop_cause>>
    /\ UNCHANGED KeyFrame

\* 'c': toggle keep_colors
KeyC ==
    /\ pc = "poll"
    /\ keep_colors' = ~keep_colors
    /\ pc' = "read"
    /\ last' = NoCall
    /\ UNCHANGED <<style_window, source_index, exc, stop_cause>>
    /\ UNCHANGED KeyFrame

\* 'q': break
KeyQ ==
    /\ pc = "poll"
    /\ pc' = AfterBreak
    /\ stop_cause' = "quit"
    /\ last' = NoCall
    /\ UNCHANGED <<style_window, source_index, exc, keep_colors>>
    /\ UNCHANGED KeyFrame

\* no key within 10 ms, or a key without a binding
KeyOther ==
    /\ pc = "poll"
    /\ pc' = "read"
    /\ last' = NoCall
    /\ UNCHANGED <<style_window, source_index, exc, keep_colors, stop_cause>>
    /\ UNCHANGED KeyFrame

\* lines 203-212: fps.stop(), cap.stop(), video_writer.release() if a video
\* is written, cv2.destroyAllWindows(), in this order
ShutdownCalls(video_out) ==
    <<"fps", "cap">> \o (IF video_out THEN <<"writer">> ELSE <<>>) \o <<"windows">>

Shutdown ==
    /\ pc = "stopping"
    /\ released' = released \o ShutdownCalls(args.video_out)
    /\ cap' = "stopped"
    /\ video_writer' = IF args.video_out THEN "released" ELSE video_writer
    /\ windows' = {}
    /\ pc' = "done"
    /\ last' = NoCall
    /\ UNCHANGED <<args, unreadable, style_window, frame, out_shape, keep_colors, count,
                   stylized, shown, written, exc, stop_cause, ncb, cb_raised,
                   infer_failed, call, ncalls, auto_reloads, source_index>>

Next ==
    \/ Setup \/ ReadFrame \/ Dispatch \/ Output
    \/ On_set_idx \/ On_set_size \/ On_set_crop_size
    \/ On_set_scale \/ On_set_alpha \/ On_set_interp
    \/ KeyR \/ KeyC \/ KeyQ \/ KeyOther
    \/ Shutdown

Spec == Init /\ [][Next]_vars

(* ------------------ the control surface on its own --------------------- *)
\* a method of the constructed window is called; main() is not running
Direct == UNCHANGED <<args, unreadable, ncb>> /\ UNCHANGED mvars

Call_set_idx == \E i \in IndexVals : Direct /\ Do_set_idx(i)
Call_set_size == \E v \in SizeVals : Direct /\ Do_set_size(v)
Call_set_crop_size == \E v \in SizeVals : Direct /\ Do_set_crop_size(v)
Call_set_scale == \E v \in ScaleVals : Direct /\ Do_set_scale(v)
Call_set_alpha == \E v \in PctVals : Direct /\ Do_set_alpha(v)
Call_set_interp == \E v \in PctVals : Direct /\ Do_set_interp(v)

\* set_style(random=True, style_idx=slot); slot 1 exists when interpolating
Call_select_random ==
    \E slot \in 0..1, r \in randint(Len(style_window.style_imgs)) :
        /\ slot = 1 => args.interpolate
        /\ Direct
        /\ Apply(set_style(style_window, None, r, slot), NoCall,
                 [source_index EXCEPT ![slot] = r])

NextWindow ==
    \/ Call_set_idx \/ Call_set_size \/ Call_set_crop_size
    \/ Call_set_scale \/ Call_set_alpha \/ Call_set_interp
    \/ Call_select_random

SpecWindow == InitWindow /\ [][NextWindow]_vars

\* main() over a catalog with unreadable files
SpecLoad == InitLoad /\ [][Next]_vars

SpecNoise == InitNoise /\ [][Next]_vars

(* ------------------------------ properties ----------------------------- *)
Slots == 0..1
Loaded(s) == style_window.style_rgbs[s] # NoImg
Terminal == pc \in {"done", "crashed"}

\* C1: in every state of the control surface, from construction on and after
\* any set_size / set_crop_size calls, crop_size <= img_size, and no call raised.
C1_CropWithinSize ==
    /\ style_window.crop_size <= style_window.img_size
    /\ ~cb_raised

\* C2: an engine call that raises does not end the loop: no exception leaves
\* main() because of it, and the loop goes on to the next frame.
C2_InferenceFailureDropsFrame ==
    infer_failed > 0 => (pc # "crashed" /\ exc = "none")

\* C3: whenever main() has stopped running after the capture was started, the
\* capture is stopped, the video writer is not left open and no window exists.
C3_ReleasedOnEveryExit ==
    (Terminal /\ cap # "unstarted")
        => (cap = "stopped" /\ video_writer # "open" /\ windows = {})

\* C4: after a failed read (the sample read included) no exception has been
\* raised and main() is in its orderly shutdown or has completed it.
C4_FailedReadStopsCleanly ==
    (cap # "unstarted" /\ frame = <<>>)
        => (exc = "none" /\ pc \in {"stopping", "done"})

\* position of x in seq, 0 if absent
PosIn(seq, x) ==
    IF \E i \in 1..Len(seq) : seq[i] = x
    THEN CHOOSE i \in 1..Len(seq) : seq[i] = x
    ELSE 0

Running == pc \in {"read", "dispatch", "output", "poll"}

\* what holds in every state of the RUNNING -> STOPPING -> STOPPED machine
StopStates ==
    /\ (stop_cause # "none") <=> (pc \in {"stopping", "done"})
    /\ pc = "done" =>
        /\ PosIn(released, "fps") > 0
        /\ PosIn(released, "fps") < PosIn(released, "windows")
        /\ args.video_out =>
            /\ PosIn(released, "fps") < PosIn(released, "writer")
            /\ PosIn(released, "writer") < PosIn(released, "windows")
        /\ ~args.video_out => PosIn(released, "writer") = 0

\* what holds of every step of it
StopSteps ==
    /\ (stop_cause' = "quit" /\ stop_cause = "none") =>
        /\ pc = "poll"
        /\ shown = count
        /\ args.video_out => Len(written) = count
    /\ stop_cause # "none" =>
        /\ UNCHANGED <<frame, count, stylized, shown, written, style_window,
                       keep_colors, stop_cause>>
        /\ pc = "stopping" /\ pc' = "done"
    /\ pc = "done" => pc' = "done"

\* C5: the loop is left only at the key poll of a fully output frame or by a
\* failed read; from then on no frame is read, dispatched, written or shown;
\* the shutdown calls come in the order fps, writer (if any), windows; and
\* nothing follows "done".
C5_StopProtocol == [][StopSteps /\ StopStates']_vars

\* reached: a session that wrote frames to a video and was ended by 'q'
C5_Witness ==
    /\ pc = "done"
    /\ stop_cause = "quit"
    /\ args.video_out
    /\ Len(written) > 0
    /\ shown = count

\* C6: the writer's size never changes once set, it is set before any frame
\* is written, and every frame written has exactly that size.
C6_SinkSizeLocked ==
    [][/\ out_shape # <<>> => out_shape' = out_shape
       /\ \A i \in 1..Len(written') :
            /\ out_shape # <<>>
            /\ written'[i] = out_shape]_vars

\* reached: a frame composed at another size than the writer's was written
C6_Witness ==
    /\ args.video_out
    /\ pc = "poll"
    /\ Len(written) = count
    /\ count > 0
    /\ stylized # out_shape
    /\ style_window.scale # args.scale

\* C7: every loaded slot holds an image loaded with the current img_size and
\* crop_size.
C7_SlotsLoadedWithCurrentSize ==
    \A s \in Slots :
        Loaded(s) =>
            /\ style_window.style_rgbs[s].resize = style_window.img_size
            /\ style_window.style_rgbs[s].crop = style_window.crop_size

\* C8: every loaded slot holds the catalog entry at the index that slot was
\* last selected with.
C8_SlotHoldsOwnIndex ==
    \A s \in Slots :
        Loaded(s) =>
            style_window.style_rgbs[s].file
                = style_window.style_imgs[source_index[s] + 1]

\* C9: a set_idx(i) that directly follows a set_idx(i) changes nothing of the
\* window: same index, same buffers, same sizes and parameters.
C9_SetIdxIdempotent ==
    [][(last'.op = "set_idx" /\ last'.twice) => style_window' = style_window]_vars

\* reached: set_idx(i) was called twice in a row on a catalog of several files
C9_Witness ==
    /\ last.op = "set_idx"
    /\ last.twice
    /\ style_window.idx = last.arg
    /\ Len(style_window.style_imgs) > 1

\* C10: with a catalog of one file there is no index trackbar, and the index
\* and the file of every loaded slot are the first entry.
C10_SingleStyleIndexZero ==
    Len(style_window.style_imgs) = 1 =>
        /\ "index" \notin style_window.trackbars
        /\ style_window.idx = 0
        /\ \A s \in Slots : Loaded(s) => style_window.style_rgbs[s].file = 1

\* reached: a one-file catalog with both slots in use, after a periodic
\* reload and the key poll that followed it
C10_Witness ==
    /\ Len(style_window.style_imgs) = 1
    /\ args.random > 0
    /\ count >= args.random
    /\ pc = "read"
    /\ args.interpolate

\* C11: a style image that fails to load during a reload ('r' key, periodic
\* reload, trackbar callback) does not end main(): no ImageLoadError leaves it.
C11_LoadFailureKeepsRunning ==
    ~(pc = "crashed" /\ exc = "ImageLoadError")
\* C12: with --noise and interpolation off, the content image given to the
\* engine is the noise image of some draw at the resized frame's shape: it is
\* fixed by the frame's width and height, the scale and the draw, whatever the
\* camera's pixels are.
C12_NoiseContentIgnoresCamera ==
    (args.noise /\ ~args.interpolate /\ call.op # "none") =>
        \E z \in NoiseDraws :
            call.content = cvtColor(noise_image(
                resize_by(<<frame[1], frame[2]>>, style_window.scale), z))

C12_Witness ==
    /\ args.noise /\ ~args.interpolate
    /\ pc = "output"
    /\ call.op = "predict"
    /\ frame[3] = "cam2"
    /\ call.content.pix = "rnd2"

\* C13: the three control values stay in their declared ranges after any
\* trackbar callbacks: scale above 0, alpha within [0, 1], and the interpolation
\* weight, when there is one, within [0, 1] (all three kept in hundredths).
C13_ControlRanges ==
    /\ style_window.scale > 0
    /\ style_window.alpha \in 0..PctMax
    /\ style_window.interp_weight # None => style_window.interp_weight \in 0..PctMax

\* C14: a frame dispatched while keep_colors is on is still processed to
\* completion: the color-preservation step never ends main().
C14_KeepColorsFrameCompletes ==
    keep_colors => ~(pc = "crashed" /\ exc = "AttributeError")

\* C15: the periodic reload runs in exactly the frames whose counter, after
\* the increment, is a positive multiple of args.random, and never when
\* args.random is 0; it reloads slot 0 before that frame's engine call and
\* leaves slot 1's image as it was.
C15_AutoReload ==
    [][/\ pc # "dispatch" => auto_reloads' = auto_reloads
       /\ (pc = "dispatch" /\ count' = count + 1) =>
            LET due == args.random > 0 /\ count' % args.random = 0
                sw  == style_window'
            IN  /\ auto_reloads' = auto_reloads + (IF due THEN 1 ELSE 0)
                /\ ~due => style_window' = style_window
                /\ due => sw.style_rgbs[0] =
                              get_img_crop(sw.style_imgs[sw.idx + 1], sw.img_size,
                                           sw.crop_size)
                /\ sw.style_rgbs[1] = style_window.style_rgbs[1]
                /\ call'.op # "none" => call'.styles[1] = sw.style_rgbs[0]]_vars

C15_Witness ==
    /\ args.random > 0 /\ args.interpolate
    /\ count = args.random
    /\ auto_reloads = 1
    /\ pc = "output"
    /\ call.op = "predict_interpolate"
    /\ call.styles[1].file # call.styles[2].file

\* C16: every frame that reaches inference makes exactly one engine call, chosen
\* by args.interpolate and made with the current controls: predict(content,
\* slot 0, alpha), or predict_interpolate(content, [slot 0, slot 1], [w, 1 - w],
\* alpha) with w the interpolation weight; the weights are not negative and sum
\* to 1 (100 hundredths), [1, 0] at w = 1 and [0, 1] at w = 0.
C16_OneEngineCallPerFrame ==
    /\ ncalls \in {count - 1, count}
    /\ pc \in {"output", "poll", "read"} => ncalls = count
    /\ pc = "output" =>
        LET content == IF args.noise THEN [call.content EXCEPT !.order = "RGB"]
                       ELSE [dims |-> resize_by(frame, style_window.scale),
                             src |-> "camera", pix |-> frame[3], order |-> "RGB"]
            w == style_window.interp_weight
        IN  /\ call.content = content
            /\ call.alpha = style_window.alpha
            /\ ~args.interpolate =>
                   /\ call.op = "predict"
                   /\ call.styles = <<style_window.style_rgbs[0]>>
            /\ args.interpolate =>
                   /\ call.op = "predict_interpolate"
                   /\ call.styles = <<style_window.style_rgbs[0],
                                      style_window.style_rgbs[1]>>
                   /\ call.weights[1] = w
                   /\ call.weights[1] >= 0 /\ call.weights[2] >= 0
                   /\ call.weights[1] + call.weights[2] = PctMax
                   /\ w = PctMax => call.weights = <<PctMax, 0>>
                   /\ w = 0 => call.weights = <<0, PctMax>>

C16_Witness ==
    /\ pc = "output"
    /\ count = 2
    /\ args.interpolate
    /\ style_window.interp_weight = 0
    /\ call.weights = <<0, PctMax>>
    /\ call.styles[1] # call.styles[2]

\* C17: the key is polled only after the tick's frame has been written and
\* shown, and the one key routed in a tick leaves that frame's output as it
\* is: the step ends the loop or does nothing ('q', no binding), or flips
\* keep_colors and changes nothing else ('c'), or reloads slot 0, and slot 1
\* exactly when interpolating, at the current sizes ('r').
C17_KeysApplyNextFrame ==
    [][/\ pc = "poll" => /\ shown = count
                         /\ args.video_out => Len(written) = count
       /\ (pc = "poll" /\ pc' # "poll") =>
            LET sw    == style_window'
                fresh == {get_img_crop(f, sw.img_size, sw.crop_size) :
                            f \in {sw.style_imgs[i] : i \in 1..Len(sw.style_imgs)}}
            IN  /\ UNCHANGED <<frame, count, stylized, shown, written, call>>
                /\ pc' \in {"read", "stopping"}
                /\ \/ UNCHANGED <<style_window, keep_colors>>
                   \/ /\ pc' = "read"
                      /\ keep_colors' = ~keep_colors
                      /\ UNCHANGED style_window
                   \/ /\ pc' = "read"
                      /\ UNCHANGED keep_colors
                      /\ sw = [style_window EXCEPT !.idx = sw.idx,
                                                   !.style_rgbs = sw.style_rgbs]
                      /\ sw.style_rgbs[0] \in fresh
                      /\ IF args.interpolate
                         THEN sw.style_rgbs[1] \in fresh
                         ELSE sw.style_rgbs[1] = style_window.style_rgbs[1]]_vars

\* 'r' pressed while interpolating, after a 'size' callback in the same tick:
\* slot 1, which only 'r' reloads, holds an image of the new size
C17_Witness ==
    /\ pc = "read"
    /\ count = 1
    /\ args.interpolate /\ args.video_out
    /\ Len(written) = 1
    /\ style_window.style_rgbs[1].resize # args.style_size

\* C18: set_scale, set_alpha and set_interp each store their argument / 100 in
\* their own field and change nothing else: no other control value, neither
\* style slot, no reload.
C18_PlainSetters ==
    [][/\ last'.op = "set_scale" =>
            style_window' = [style_window EXCEPT !.scale = last'.arg]
       /\ last'.op = "set_alpha" =>
            style_window' = [style_window EXCEPT !.alpha = last'.arg]
       /\ last'.op = "set_interp" =>
            style_window' = [style_window EXCEPT !.interp_weight = last'.arg]
       /\ last'.op \in {"set_scale", "set_alpha", "set_interp"} =>
            UNCHANGED <<keep_colors, source_index>>]_vars

\* set_scale called while slot 0 holds another file than idx names: a reload
\* would have replaced it
C18_Witness ==
    /\ last.op = "set_scale"
    /\ style_window.scale = last.arg
    /\ last.arg = PctMax \div 2
    /\ style_window.style_rgbs[0].file # style_window.style_imgs[style_window.idx + 1]

\* C19: from construction on, slot 0 holds an image, slot 1 holds one exactly
\* when interpolating, and every style given to the engine is a loaded image;
\* a reload that fails leaves the slot's image in place.
C19_SlotsLoaded ==
    /\ Loaded(0)
    /\ Loaded(1) <=> args.interpolate
    /\ \A i \in 1..Len(call.styles) : call.styles[i] # NoImg
    /\ call.op = "predict" => Len(call.styles) = 1
    /\ call.op = "predict_interpolate" => Len(call.styles) = 2

\* an engine call with two styles after a reload failed in a trackbar callback
C19_Witness ==
    /\ pc = "output"
    /\ count = 2
    /\ args.interpolate
    /\ cb_raised
    /\ call.op = "predict_interpolate"

\* C20: for every combination of --concat and --interpolate, a frame of the
\* sample frame's size, composed at the start-up scale, has the size the video
\* writer was opened with.
C20_LockedSizeIsComposedSize ==
    (/\ args.video_out
     /\ pc = "output"
     /\ style_window.scale = args.scale
     /\ OutShape(resize_by(frame, args.scale), args.concat) = out_shape)
        => stylized = out_shape

====
